---- MODULE Spec2Model ----
(***************************************************************************)
(* azure_image_capture: an Ansible module that resolves its connection     *)
(* settings from module parameters and environment variables, validates    *)
(* the credentials, and then drives deallocate -> generalize -> capture on *)
(* an Azure virtual machine (cloud/azure/azure_image_capture.py).          *)
(*                                                                         *)
(* One behaviour of the model is one invocation of main().  The state is   *)
(* main's locals, the parameter bag and the environment it reads, and the  *)
(* trace of calls it makes into the Azure SDK.                             *)
(***************************************************************************)
EXTENDS Naturals, Sequences, FiniteSets, TLC

VARIABLES
    HAS_DEPS,        \* module global set by the guarded import
    params,          \* module.params, as built by AnsibleModule(argument_spec)
    environ,         \* os.environ
    pc,              \* position of main()
    conn_info,       \* dict returned by get_azure_connection_info, or None
    capture_params,  \* VirtualMachineCaptureParameters built by captureImages
    calls,           \* SDK calls made so far, each with whether it returned
    result_output,   \* operation.result().output, named by its shape
    vhd_uri,         \* value returned by captureImages
    outcome          \* how the invocation ended

vars == <<HAS_DEPS, params, environ, pc, conn_info, capture_params, calls,
          result_output, vhd_uri, outcome>>

-----------------------------------------------------------------------------
(* Python values.  None and an unset environment variable are sentinels    *)
(* distinct from every string the inputs can hold, the empty string        *)
(* included.                                                               *)

None == "<None>"

Unset == "<unset>"

\* A local that has not been assigned yet.
Unbound == "<unbound>"

\* A key the result bag does not hold.
Missing == "<missing>"

\* Python truthiness of an optional string: `not x`.
Not(x) == x = None \/ x = ""

-----------------------------------------------------------------------------
(* Inputs.                                                                 *)

\* Keys of argument_spec in main().
ArgSpec == {"subscription_id", "client_secret", "client_id", "tenant_id",
            "resource_group_name", "vm_name", "destination_container",
            "vhd_prefix"}

\* default of vhd_prefix in argument_spec.
VhdPrefixDefault == "vm-osdisk"

\* Environment variables get_azure_connection_info looks up.
EnvVars == {"VHD_PREFIX", "AZURE_URL", "AZURE_SUBSCRIPTION_ID",
            "AZURE_RESOURCE_GROUP_NAME", "VM_NAME", "DESTINATION_CONTAINER",
            "AZURE_TENANT_ID", "AZURE_DOMAIN", "AZURE_CLIENT_ID",
            "AZURE_CLIENT_SECRET"}

\* The value a playbook gives to parameter k, and the value the
\* environment gives to variable v: all distinct, so a resolved field
\* tells where it came from.
ParamValue(k) == "param:" \o k

EnvValue(v) == "env:" \o v

\* A fully specified invocation: every parameter given, vhd_prefix left to
\* its default, nothing in the environment.
BaseParams == [k \in ArgSpec |->
                  IF k = "vhd_prefix" THEN VhdPrefixDefault ELSE ParamValue(k)]

BaseEnviron == [v \in EnvVars |-> Unset]

\* The ways one input can depart from the fully specified invocation: a
\* parameter given as the empty string or as null (required=True only
\* demands that the key be supplied), vhd_prefix given explicitly, an
\* environment variable set (to a value or to the empty string).
Deviations ==
    {<<"param", k, "">> : k \in ArgSpec}
    \cup {<<"param", k, None>> : k \in ArgSpec}
    \cup {<<"param", "vhd_prefix", ParamValue("vhd_prefix")>>}
    \cup {<<"env", v, EnvValue(v)>> : v \in EnvVars}
    \cup {<<"env", v, "">> : v \in EnvVars}

\* How many inputs depart from the fully specified invocation at once.
MaxDeviations == 3

RECURSIVE DeviationSetsUpTo(_)
DeviationSetsUpTo(n) ==
    IF n = 0 THEN {{}}
    ELSE LET smaller == DeviationSetsUpTo(n - 1)
         IN  smaller \cup
             {D \cup {d} : D \in smaller,
                           d \in Deviations}

\* At most one deviation per parameter or variable.
Consistent(D) ==
    \A d1, d2 \in D : (d1[1] = d2[1] /\ d1[2] = d2[2]) => d1 = d2

DeviationSets == {D \in DeviationSetsUpTo(MaxDeviations) : Consistent(D)}

Apply(kind, base, D) ==
    [k \in DOMAIN base |->
        IF \E d \in D : d[1] = kind /\ d[2] = k
        THEN (CHOOSE d \in D : d[1] = kind /\ d[2] = k)[3]
        ELSE base[k]]

-----------------------------------------------------------------------------
(* ConfigurationHelper                                                     *)

\* module.params.get(k): None for a key the bag does not hold.
ParamsGet(p, k) == IF k \in DOMAIN p THEN p[k] ELSE None

\* `v in os.environ`
InEnviron(e, v) == e[v] # Unset

\* The statement-by-statement effect of get_azure_connection_info on its
\* nine locals; each LET line is one if-block of the function.
get_azure_connection_info(p, e) ==
    LET azure_url0 == ParamsGet(p, "azure_url")
        tenant_id0 == ParamsGet(p, "tenant_id")
        client_id0 == ParamsGet(p, "client_id")
        vhd_prefix0 == ParamsGet(p, "vhd_prefix")
        client_secret0 == ParamsGet(p, "client_secret")
        vm_name0 == ParamsGet(p, "vm_name")
        destination_container0 == ParamsGet(p, "destination_container")
        resource_group_name0 == ParamsGet(p, "resource_group_name")
        subscription_id0 == ParamsGet(p, "subscription_id")
        \* if not vhd_prefix: azure_url = environ['VHD_PREFIX'] / vhd_prefix = None
        azure_url1 == IF Not(vhd_prefix0) /\ InEnviron(e, "VHD_PREFIX")
                      THEN e["VHD_PREFIX"] ELSE azure_url0
        vhd_prefix1 == IF Not(vhd_prefix0) /\ ~InEnviron(e, "VHD_PREFIX")
                       THEN None ELSE vhd_prefix0
        \* if not azure_url
        azure_url2 == IF Not(azure_url1)
                      THEN (IF InEnviron(e, "AZURE_URL")
                            THEN e["AZURE_URL"] ELSE None)
                      ELSE azure_url1
        \* if not subscription_id
        subscription_id1 == IF Not(subscription_id0)
                            THEN (IF InEnviron(e, "AZURE_SUBSCRIPTION_ID")
                                  THEN e["AZURE_SUBSCRIPTION_ID"] ELSE None)
                            ELSE subscription_id0
        \* if not resource_group_name
        resource_group_name1 ==
            IF Not(resource_group_name0)
            THEN (IF InEnviron(e, "AZURE_RESOURCE_GROUP_NAME")
                  THEN e["AZURE_RESOURCE_GROUP_NAME"] ELSE None)
            ELSE resource_group_name0
        \* if not vm_name
        vm_name1 == IF Not(vm_name0)
                    THEN (IF InEnviron(e, "VM_NAME")
                          THEN e["VM_NAME"] ELSE None)
                    ELSE vm_name0
        \* if not destination_container: both branches assign vm_name
        vm_name2 == IF Not(destination_container0)
                    THEN (IF InEnviron(e, "DESTINATION_CONTAINER")
                          THEN e["DESTINATION_CONTAINER"] ELSE None)
                    ELSE vm_name1
        \* if not tenant_id
        tenant_id1 == IF Not(tenant_id0)
                      THEN (IF InEnviron(e, "AZURE_TENANT_ID")
                            THEN e["AZURE_TENANT_ID"]
                            ELSE IF InEnviron(e, "AZURE_DOMAIN")
                                 THEN e["AZURE_DOMAIN"] ELSE None)
                      ELSE tenant_id0
        \* if not client_id
        client_id1 == IF Not(client_id0)
                      THEN (IF InEnviron(e, "AZURE_CLIENT_ID")
                            THEN e["AZURE_CLIENT_ID"] ELSE None)
                      ELSE client_id0
        \* if not client_secret
        client_secret1 == IF Not(client_secret0)
                          THEN (IF InEnviron(e, "AZURE_CLIENT_SECRET")
                                THEN e["AZURE_CLIENT_SECRET"] ELSE None)
                          ELSE client_secret0
    IN  [azure_url |-> azure_url2,
         tenant_id |-> tenant_id1,
         client_id |-> client_id1,
         client_secret |-> client_secret1,
         destination_container |-> destination_container0,
         vm_name |-> vm_name2,
         vhd_prefix |-> vhd_prefix1,
         resource_group_name |-> resource_group_name1,
         subscription_id |-> subscription_id1]

\* The condition under which validate_configuration takes its failure branch.
MissingCredentials(c) ==
    \/ c.client_id = None
    \/ c.client_secret = None
    \/ c.tenant_id = None

-----------------------------------------------------------------------------
(* The capture result payload: result.output, a JSON document.  A node is  *)
(* a dict, a list, a string or None, tagged with its Python type.          *)

Dict(f) == [t |-> "dict", v |-> f]

List(s) == [t |-> "list", v |-> s]

Str(s) == [t |-> "str", v |-> s]

NoneNode == [t |-> "none", v |-> None]

\* The subscripts captureImages applies to result.output, in order
\* ("0" stands for the list index 0).
Path == <<"resources", "0", "properties", "storageProfile", "osDisk",
          "image", "uri">>

\* The node on which subscript key yields child.
Wrap(key, child) ==
    IF key = "0" THEN List(<<child>>) ELSE Dict([k \in {key} |-> child])

\* The container of the right type for subscript key, holding nothing.
Empty(key) ==
    IF key = "0" THEN List(<<>>) ELSE Dict([k \in {} |-> NoneNode])

\* node placed under the first i subscripts of Path.
RECURSIVE Under(_, _)
Under(i, node) == IF i = 0 THEN node ELSE Under(i - 1, Wrap(Path[i], node))

\* URIs the service can report.
Uris == {"http://example/img.vhd", "https://acct.blob.core.windows.net/c/x.vhd"}

\* The payloads the service can answer with, each named by its shape: the
\* path is whole down to `depth` subscripts, and what sits there is a
\* string ("str", the uri), null ("null"), or a container without the next
\* key or index ("missing").
WellFormedShapes ==
    {[depth |-> Len(Path), leaf |-> "str", uri |-> u] : u \in Uris}

MalformedShapes ==
    {[depth |-> i, leaf |-> "missing", uri |-> ""] : i \in 0 .. (Len(Path) - 1)}
    \cup {[depth |-> i, leaf |-> "null", uri |-> ""] : i \in 0 .. Len(Path)}

PayloadShapes == WellFormedShapes \cup MalformedShapes

\* The JSON document of a shape.
Payload(shape) ==
    Under(shape.depth,
          IF shape.leaf = "str" THEN Str(shape.uri)
          ELSE IF shape.leaf = "null" THEN NoneNode
          ELSE Empty(Path[shape.depth + 1]))

\* node[key] in Python: the value, or the exception the subscript raises.
Subscript(node, key) ==
    IF node.t = "dict"
    THEN IF key \in DOMAIN node.v
         THEN [exc |-> "", v |-> node.v[key]]
         ELSE [exc |-> "KeyError", v |-> NoneNode]
    ELSE IF node.t = "list" /\ key = "0"
    THEN IF Len(node.v) >= 1
         THEN [exc |-> "", v |-> node.v[1]]
         ELSE [exc |-> "IndexError", v |-> NoneNode]
    ELSE [exc |-> "TypeError", v |-> NoneNode]

\* result.output['resources'][0]['properties']['storageProfile']
\*              ['osDisk']['image']['uri'], from subscript i on.
RECURSIVE Lookup(_, _)
Lookup(node, i) ==
    IF i > Len(Path) THEN [exc |-> "", v |-> node]
    ELSE LET r == Subscript(node, Path[i])
         IN  IF r.exc # "" THEN r ELSE Lookup(r.v, i + 1)

blob_uri(output) == Lookup(output, 1)

-----------------------------------------------------------------------------
(* The invocation.                                                         *)

ConnFields == {"azure_url", "tenant_id", "client_id", "client_secret",
               "destination_container", "vm_name", "vhd_prefix",
               "resource_group_name", "subscription_id"}

NotResolved == [f \in ConnFields |-> Unbound]

NoResult == [depth |-> 0, leaf |-> Unbound, uri |-> ""]

Running == [kind |-> "running", msg |-> "", exc |-> "", vhd_uri |-> Missing]

\* module.fail_json(msg=m): prints the failure result and exits.
fail_json(m) == [kind |-> "fail_json", msg |-> m, exc |-> "", vhd_uri |-> Missing]

\* module.exit_json(msg=m, vhd_uri=u): prints the result and exits.
exit_json(m, u) == [kind |-> "exit_json", msg |-> m, exc |-> "", vhd_uri |-> u]

\* An exception nothing catches: the process dies with a traceback.
Uncaught(e) == [kind |-> "exception", msg |-> "", exc |-> e, vhd_uri |-> Missing]

MissingDependencyMsg == "azure@2.0 and above is required for this module"

\* The literal of validate_configuration; its backslash-newline keeps the
\* indentation of the continuation line inside the string.
MissingCredentialsMsg ==
    "security token or client_id, " \o
    "                                 " \o
    "client_secret and tenant_id is required"

SuccessMsgPrefix == "Sucessfully captured image to container:"

\* main calls captureImages with overwrite left to its default (False).
OverwriteArgument_default == FALSE

\* The fourth argument of main's call of captureImages.
OverwriteArgument == TRUE

Init ==
    /\ HAS_DEPS \in BOOLEAN
    /\ \E D \in DeviationSets :
          /\ params = Apply("param", BaseParams, D)
          /\ environ = Apply("env", BaseEnviron, D)
    /\ pc = "main"
    /\ conn_info = NotResolved
    /\ capture_params = <<>>
    /\ calls = <<>>
    /\ result_output = NoResult
    /\ vhd_uri = Unbound
    /\ outcome = Running

\* if not HAS_DEPS: module.fail_json(...)
main_missing_deps ==
    /\ pc = "main"
    /\ ~HAS_DEPS
    /\ pc' = "done"
    /\ outcome' = fail_json(MissingDependencyMsg)
    /\ UNCHANGED <<HAS_DEPS, params, environ, conn_info, capture_params,
                   calls, result_output, vhd_uri>>

\* main goes on to resolve the configuration without looking at HAS_DEPS.
main_resolve_unguarded ==
    /\ pc = "main"
    /\ conn_info' = get_azure_connection_info(params, environ)
    /\ pc' = "resolved"
    /\ UNCHANGED <<HAS_DEPS, params, environ, capture_params, calls,
                   result_output, vhd_uri, outcome>>

\* conn_info = ConfigurationHelper.get_azure_connection_info(module)
main_resolve ==
    /\ pc = "main"
    /\ HAS_DEPS
    /\ conn_info' = get_azure_connection_info(params, environ)
    /\ pc' = "resolved"
    /\ UNCHANGED <<HAS_DEPS, params, environ, capture_params, calls,
                   result_output, vhd_uri, outcome>>

\* ConfigurationHelper.validate_configuration(conn_info).  Its failure
\* branch calls module.fail_json, but `module` is a local of main() and the
\* file binds no global of that name: the call reports the failure only if
\* the wildcard import at the end of the file happens to bind one, and
\* raises NameError otherwise.
validate_configuration ==
    /\ pc = "resolved"
    /\ IF MissingCredentials(conn_info)
       THEN /\ pc' = "done"
            /\ \E module_is_global \in BOOLEAN :
                  outcome' = IF module_is_global
                             THEN fail_json(MissingCredentialsMsg)
                             ELSE Uncaught("NameError")
       ELSE /\ pc' = "validated"
            /\ UNCHANGED outcome
    /\ UNCHANGED <<HAS_DEPS, params, environ, conn_info, capture_params,
                   calls, result_output, vhd_uri>>

\* An SDK call whose exception is swallowed: main moves on either way.
SdkCall_swallowed(op, from, to) ==
    /\ pc = from
    /\ \E ok \in BOOLEAN :
          /\ calls' = Append(calls, [op |-> op, ok |-> ok])
          /\ pc' = to
          /\ outcome' = outcome

\* A call into the SDK from position `from`: it returns and main moves to
\* `to`, or it raises and, nothing catching it, the invocation dies.
SdkCall(op, from, to) ==
    /\ pc = from
    /\ \E ok \in BOOLEAN :
          /\ calls' = Append(calls, [op |-> op, ok |-> ok])
          /\ pc' = IF ok THEN to ELSE "done"
          /\ outcome' = IF ok THEN outcome ELSE Uncaught("SdkError")

\* imageCapture = Capture(...): builds the credentials (which requests a
\* token) and the client.
Capture_init ==
    /\ SdkCall("ServicePrincipalCredentials", "validated", "constructed")
    /\ UNCHANGED <<HAS_DEPS, params, environ, conn_info, capture_params,
                   result_output, vhd_uri>>

\* captureImages, up to the deallocate call: builds the capture parameters
\* from its arguments, then vmOps.deallocate(...).
deallocate ==
    /\ SdkCall("deallocate", "constructed", "deallocating")
    /\ capture_params' =
          Append(capture_params,
                 [vhd_prefix |-> conn_info.vhd_prefix,
                  destination_container |-> conn_info.destination_container,
                  overwrite |-> OverwriteArgument])
    /\ UNCHANGED <<HAS_DEPS, params, environ, conn_info, result_output,
                   vhd_uri>>

\* .wait() on the deallocate poller
deallocate_wait ==
    /\ SdkCall("deallocate.wait", "deallocating", "deallocated")
    /\ UNCHANGED <<HAS_DEPS, params, environ, conn_info, capture_params,
                   result_output, vhd_uri>>

\* generalize issued right after the deallocate call, its poller not
\* waited on.
generalize_before_wait ==
    /\ SdkCall("generalize", "deallocating", "generalized")
    /\ UNCHANGED <<HAS_DEPS, params, environ, conn_info, capture_params,
                   result_output, vhd_uri>>

\* vmOps.generalize(...): the return value is dropped, nothing is waited on
generalize ==
    /\ SdkCall("generalize", "deallocated", "generalized")
    /\ UNCHANGED <<HAS_DEPS, params, environ, conn_info, capture_params,
                   result_output, vhd_uri>>

\* operation = vmOps.capture(..., params)
capture ==
    /\ SdkCall("capture", "generalized", "capturing")
    /\ UNCHANGED <<HAS_DEPS, params, environ, conn_info, capture_params,
                   result_output, vhd_uri>>

\* operation.wait()
operation_wait ==
    /\ SdkCall("capture.wait", "capturing", "captured")
    /\ UNCHANGED <<HAS_DEPS, params, environ, conn_info, capture_params,
                   result_output, vhd_uri>>

\* result = operation.result()
operation_result ==
    /\ SdkCall("capture.result", "captured", "fetched")
    /\ \E shape \in PayloadShapes :
          result_output' = IF pc' = "fetched" THEN shape ELSE result_output
    /\ UNCHANGED <<HAS_DEPS, params, environ, conn_info, capture_params,
                   vhd_uri>>

\* blob_uri = result.output[...]...['uri']; return blob_uri
captureImages_return ==
    /\ pc = "fetched"
    /\ LET r == blob_uri(Payload(result_output))
       IN  IF r.exc = ""
           THEN /\ vhd_uri' = r.v.v
                /\ pc' = "returned"
                /\ UNCHANGED outcome
           ELSE /\ pc' = "done"
                /\ outcome' = Uncaught(r.exc)
                /\ UNCHANGED vhd_uri
    /\ UNCHANGED <<HAS_DEPS, params, environ, conn_info, capture_params,
                   calls, result_output>>

\* data = dict(msg=... + conn_info['destination_container'], vhd_uri=vhd_uri)
\* module.exit_json(**data)
main_exit_json ==
    /\ pc = "returned"
    /\ pc' = "done"
    /\ outcome' = IF conn_info.destination_container = None
                  THEN Uncaught("TypeError")
                  ELSE exit_json(SuccessMsgPrefix \o
                                 conn_info.destination_container, vhd_uri)
    /\ UNCHANGED <<HAS_DEPS, params, environ, conn_info, capture_params,
                   calls, result_output, vhd_uri>>

Next ==
    \/ main_missing_deps
    \/ main_resolve
    \/ validate_configuration
    \/ Capture_init
    \/ deallocate
    \/ deallocate_wait
    \/ generalize
    \/ capture
    \/ operation_wait
    \/ operation_result
    \/ captureImages_return
    \/ main_exit_json

Spec == Init /\ [][Next]_vars

-----------------------------------------------------------------------------
(* Properties.                                                             *)

\* main has called get_azure_connection_info.
Resolved == conn_info # NotResolved

\* The explicit parameter of field f, as the resolver reads it.
Explicit(f) == ParamsGet(params, f)

\* The resolution table: the environment variables of each field, in the
\* order they are consulted.
EnvChain(f) ==
    CASE f = "azure_url" -> <<"AZURE_URL">>
      [] f = "vhd_prefix" -> <<"VHD_PREFIX">>
      [] f = "subscription_id" -> <<"AZURE_SUBSCRIPTION_ID">>
      [] f = "resource_group_name" -> <<"AZURE_RESOURCE_GROUP_NAME">>
      [] f = "vm_name" -> <<"VM_NAME">>
      [] f = "destination_container" -> <<"DESTINATION_CONTAINER">>
      [] f = "tenant_id" -> <<"AZURE_TENANT_ID", "AZURE_DOMAIN">>
      [] f = "client_id" -> <<"AZURE_CLIENT_ID">>
      [] f = "client_secret" -> <<"AZURE_CLIENT_SECRET">>

\* The first variable of f's chain that is set, if any is.
SomeSet(f) == \E i \in 1 .. Len(EnvChain(f)) : InEnviron(environ, EnvChain(f)[i])

FirstSet(f) ==
    LET i == CHOOSE i \in 1 .. Len(EnvChain(f)) :
                 /\ InEnviron(environ, EnvChain(f)[i])
                 /\ \A j \in 1 .. (i - 1) : ~InEnviron(environ, EnvChain(f)[j])
    IN  EnvChain(f)[i]

\* C1: once the configuration is resolved, every field whose explicit
\* parameter is present (neither null nor empty) holds exactly that
\* parameter, whatever the environment holds.
C1_ExplicitWins ==
    Resolved =>
        \A f \in ConnFields : ~Not(Explicit(f)) => conn_info[f] = Explicit(f)

\* C2: once the configuration is resolved, every field whose explicit
\* parameter is absent and whose environment variable is set holds the
\* value of its own variable (for tenant_id AZURE_TENANT_ID when set,
\* otherwise AZURE_DOMAIN).
C2_EnvFallback ==
    Resolved =>
        \A f \in ConnFields :
            (Not(Explicit(f)) /\ SomeSet(f)) => conn_info[f] = environ[FirstSet(f)]

\* The values an input slot can hold.
ParamInputs == {None, ""} \cup {ParamValue(k) : k \in ArgSpec}

EnvInputs == {Unset, ""} \cup {EnvValue(v) : v \in EnvVars}

\* C3: the resolved vm_name is the same for every other choice of the
\* destination_container parameter and the DESTINATION_CONTAINER variable,
\* and the resolved destination_container is the same for every other
\* choice of the vm_name parameter and the VM_NAME variable.
C3_Independent ==
    Resolved =>
        \A x \in ParamInputs, y \in EnvInputs :
            /\ get_azure_connection_info(
                   [params EXCEPT !["destination_container"] = x],
                   [environ EXCEPT !["DESTINATION_CONTAINER"] = y]).vm_name
               = conn_info.vm_name
            /\ get_azure_connection_info(
                   [params EXCEPT !["vm_name"] = x],
                   [environ EXCEPT !["VM_NAME"] = y]).destination_container
               = conn_info.destination_container

\* C4: once the configuration is resolved, every field whose explicit
\* parameter is absent and none of whose environment variables is set is
\* None, not the empty string or anything else.
C4_AbsentIsNone ==
    Resolved =>
        \A f \in ConnFields :
            (Not(Explicit(f)) /\ ~SomeSet(f)) => conn_info[f] = None

\* C5: when a credential field of the resolved descriptor is None,
\* validation ends the invocation with the MissingCredentials failure, and
\* nothing of the SDK has been built or called.
C5_MissingCredentials ==
    (Resolved /\ pc # "resolved" /\ MissingCredentials(conn_info)) =>
        /\ pc = "done"
        /\ outcome = fail_json(MissingCredentialsMsg)
        /\ calls = <<>>
        /\ capture_params = <<>>

\* The remote calls of captureImages, in the order the sequence demands.
RemoteOrder == <<"deallocate", "deallocate.wait", "generalize", "capture",
                 "capture.wait", "capture.result">>

Issued(op) == \E i \in 1 .. Len(calls) : calls[i].op = op

Completed(op) == \E i \in 1 .. Len(calls) : calls[i].op = op /\ calls[i].ok

\* C6: after the credentials, the remote calls made so far are an initial
\* stretch of deallocate, wait, generalize, capture, wait, result (so each
\* happens at most once and in that order); generalize is issued only once
\* the deallocate wait has returned, capture only once generalize has been
\* issued, and the payload is fetched and the URI extracted only once the
\* capture wait has returned.
C6_FixedOrder ==
    /\ \A i \in 1 .. Len(calls) :
          calls[i].op = IF i = 1 THEN "ServicePrincipalCredentials"
                        ELSE RemoteOrder[i - 1]
    /\ Len(calls) <= Len(RemoteOrder) + 1
    /\ Issued("generalize") => Completed("deallocate.wait")
    /\ Issued("capture") => Issued("generalize")
    /\ Issued("capture.result") => Completed("capture.wait")
    /\ (result_output # NoResult \/ vhd_uri # Unbound) =>
           (Completed("capture.wait") /\ Completed("capture.result"))

C6_Witness ==
    /\ pc = "done"
    /\ outcome.kind = "exit_json"
    /\ Len(calls) = Len(RemoteOrder) + 1

\* C7: a remote call that failed is the last call of the invocation: the
\* invocation is over, it ended with the failure, no call was made twice,
\* and there is neither a vhd_uri nor the success message.
C7_FailureIsTerminal ==
    /\ \A i \in 1 .. Len(calls) :
          ~calls[i].ok =>
              /\ i = Len(calls)
              /\ pc = "done"
              /\ outcome.kind = "exception"
              /\ outcome.vhd_uri = Missing
              /\ outcome.msg = ""
              /\ vhd_uri = Unbound
    /\ \A i, j \in 1 .. Len(calls) : calls[i].op = calls[j].op => i = j

C7_Witness ==
    /\ pc = "done"
    /\ Len(calls) = 4
    /\ calls[4] = [op |-> "generalize", ok |-> FALSE]

\* C8: when the capture payload is malformed (a key or index of the uri
\* path missing, or null in its place), the invocation ends with the
\* dedicated ExtractionError.
C8_ExtractionError ==
    (pc \in {"returned", "done"} /\ result_output \in MalformedShapes) =>
        (pc = "done" /\ outcome = Uncaught("ExtractionError"))

\* C9: without the SDK, nothing is resolved, built or called, and the
\* invocation can only end with the MissingDependency failure.
C9_MissingDependency ==
    ~HAS_DEPS =>
        /\ pc \in {"main", "done"}
        /\ conn_info = NotResolved
        /\ calls = <<>>
        /\ capture_params = <<>>
        /\ pc = "done" => outcome = fail_json(MissingDependencyMsg)

C9_Witness == ~HAS_DEPS /\ pc = "done"

====
